---- MODULE Spec2Model ----
(***************************************************************************)
(* A model of the Cerebrum client toolkit: the HumanEval inference harness *)
(* (benchmarks/humaneval/inference.py) and the LLM request/response        *)
(* contract (cerebrum/llm/apis.py).                                        *)
(*                                                                         *)
(* Python strings are modelled as sequences of characters; a character is  *)
(* a one-element TLA+ string, except the non-ASCII code point U+00E9,      *)
(* which is written "U00E9".                                               *)
(***************************************************************************)
EXTENDS Integers, Sequences, FiniteSets, TLC

VARIABLES
    \* parse_result: the text handed in, what came back, where the call is
    text, parsed, ppc,
    \* write_output_func: the list, the file before the first call, the file,
    \* the file after the first call, and the calls made so far
    wlist, wprior, wfile, wfirst, wcalls,
    \* LLMQuery / LLMResponse construction and the llm_* calls
    apc, qargs, query, qraised, rargs, response, rraised, outbound, sent,
    \* LLMLayer construction
    largs, layer, lraised,
    \* the harness run
    dataset, max_num, pc, idx, outcome, result_list, invoked, writes,
    prior_file, output_file, programs, written

parseVars == <<text, parsed, ppc>>
writerVars == <<wlist, wprior, wfile, wfirst, wcalls>>
apiVars == <<apc, qargs, query, qraised, rargs, response, rraised, outbound,
             sent, largs, layer, lraised>>
runVars == <<dataset, max_num, pc, idx, outcome, result_list, invoked, writes,
             prior_file, output_file, programs, written>>
vars == <<parseVars, writerVars, apiVars, runVars>>

\* a file system path: whether it names a file, and the file's characters
File(data) == [exists |-> TRUE, data |-> data]
Absent == [exists |-> FALSE, data |-> <<>>]

\* a Python value as an argument: left out, None, or of some type
Omitted == [kind |-> "omitted", str |-> "", int |-> 0, bool |-> FALSE, list |-> <<>>]
None == [Omitted EXCEPT !.kind = "None"]
PyList(v) == [Omitted EXCEPT !.kind = "list", !.list = v]
PyStr(v) == [Omitted EXCEPT !.kind = "str", !.str = v]
PyBool(v) == [Omitted EXCEPT !.kind = "bool", !.bool = v]
PyInt(v) == [Omitted EXCEPT !.kind = "int", !.int = v]

\* the parts of the program a run does not use
ParseIdle == text = <<>> /\ parsed = <<>> /\ ppc = "idle"
WriterIdle ==
    wlist = <<>> /\ wprior = Absent /\ wfile = Absent /\ wfirst = Absent /\ wcalls = 0
ApiIdle ==
    /\ apc = "idle"
    /\ qargs = <<>> /\ query = <<>> /\ qraised = ""
    /\ rargs = <<>> /\ response = <<>> /\ rraised = ""
    /\ outbound = 0 /\ sent = <<>>
    /\ largs = <<>> /\ layer = <<>> /\ lraised = ""
RunIdle ==
    /\ dataset = <<>> /\ max_num = None /\ pc = "idle" /\ idx = 0
    /\ outcome = <<>> /\ result_list = <<>> /\ invoked = <<>> /\ writes = <<>>
    /\ prior_file = Absent /\ output_file = Absent /\ programs = {} /\ written = <<>>

-----------------------------------------------------------------------------
(* Bounds of the model.                                                    *)

\* the longest text handed to parse_result, in pieces
MaxPieces == 4
\* the longest result list handed to write_output_func on its own
MaxList == 2
\* the most calls of write_output_func in a row
MaxWrites == 2
\* the longest dataset
MaxData == 2
\* the largest max_num
MaxNum == 3
\* the longest message list handed to LLMQuery
MaxMessages == 2
\* the longest llms list handed to LLMLayer
MaxLlms == 2

-----------------------------------------------------------------------------
(* Python's str and list primitives.                                       *)

Min(a, b) == IF a < b THEN a ELSE b

\* s[a:b] for 0 <= a, 0 <= b
Slice(s, a, b) == SubSeq(s, a + 1, Min(b, Len(s)))

\* whether sub occurs in s at 0-based index i
OccursAt(s, sub, i) ==
    /\ i + Len(sub) <= Len(s)
    /\ \A k \in 1..Len(sub) : s[i + k] = sub[k]

\* s.find(sub): the lowest 0-based index of sub in s, or -1
Find(s, sub) ==
    LET hits == {i \in 0..Len(s) : OccursAt(s, sub, i)}
    IN  IF hits = {} THEN -1
        ELSE CHOOSE i \in hits : \A j \in hits : i <= j

\* s.rfind(sub)
RFind(s, sub) ==
    LET hits == {i \in 0..Len(s) : OccursAt(s, sub, i)}
    IN  IF hits = {} THEN -1
        ELSE CHOOSE i \in hits : \A j \in hits : j <= i

RECURSIVE Concat(_)
\* "".join(ss)
Concat(ss) == IF ss = <<>> THEN <<>> ELSE Head(ss) \o Concat(Tail(ss))

\* all sequences over S of length at most n
SeqsUpTo(S, n) == UNION {[1..k -> S] : k \in 0..n}

-----------------------------------------------------------------------------
(* parse_result                                                            *)

\* "<FINAL_ANSWER>"
StartMarker == <<"<", "F", "I", "N", "A", "L", "_", "A", "N", "S", "W", "E", "R", ">">>
\* "</FINAL_ANSWER>"
EndMarker == <<"<", "/", "F", "I", "N", "A", "L", "_", "A", "N", "S", "W", "E", "R", ">">>

parse_result(result) ==
    LET start_idx == Find(result, StartMarker)
        end_idx == Find(result, EndMarker)
    IN  IF start_idx # -1 /\ end_idx # -1
        THEN Slice(result, start_idx + Len(StartMarker), end_idx)
        ELSE <<>>

\* the pieces texts are built from: the two markers, ordinary characters, and
\* the fragments that make up a marker when they meet
Pieces ==
    { StartMarker, EndMarker, <<"x">>, <<" ">>, <<"<">>,
      <<"/", "F", "I", "N", "A", "L", "_", "A", "N", "S", "W", "E", "R", ">">> }

Texts == {Concat(ps) : ps \in SeqsUpTo(Pieces, MaxPieces)}

InitParse ==
    /\ text \in Texts
    /\ parsed = <<>>
    /\ ppc = "call"
    /\ WriterIdle /\ ApiIdle /\ RunIdle

ParseResult ==
    /\ ppc = "call"
    /\ parsed' = parse_result(text)
    /\ ppc' = "returned"
    /\ UNCHANGED <<text, writerVars, apiVars, runVars>>

NextParse == ParseResult

SpecParse == InitParse /\ [][NextParse]_vars

\* the X of every way to read the text as P + <FINAL_ANSWER> + X + </FINAL_ANSWER> + S
Between(t) ==
    { Slice(t, i + Len(StartMarker), j) :
        <<i, j>> \in { ij \in (0..Len(t)) \X (0..Len(t)) :
                        /\ OccursAt(t, StartMarker, ij[1])
                        /\ OccursAt(t, EndMarker, ij[2])
                        /\ ij[1] + Len(StartMarker) <= ij[2] } }

\* C4: parse_result returns, for a text that holds <FINAL_ANSWER>X</FINAL_ANSWER>,
\* the text X between a begin marker and the end marker that follows it, and
\* the empty string when either marker is absent.  (C4 asks for X under
\* every reading P + <FINAL_ANSWER> + X + </FINAL_ANSWER> + S; this asks only that
\* the result be the X of some reading, which C4 implies.)
C4_ParseBetweenMarkers ==
    ppc = "returned" =>
        /\ Between(text) # {} => parsed \in Between(text)
        /\ (Find(text, StartMarker) = -1 \/ Find(text, EndMarker) = -1) => parsed = <<>>

-----------------------------------------------------------------------------
(* json.dumps, as write_output_func uses it: ensure_ascii, the separators  *)
(* ", " and ": ", keys in insertion order.                                 *)

\* "task_id", "completion"
KeyTaskId == <<"t", "a", "s", "k", "_", "i", "d">>
KeyCompletion == <<"c", "o", "m", "p", "l", "e", "t", "i", "o", "n">>

Quote == "\""
Backslash == "\\"
Newline == "\n"

\* one character of a str, as json.dumps writes it inside a string literal
json_escape(c) ==
    CASE c = Quote -> <<Backslash, Quote>>
      [] c = Backslash -> <<Backslash, Backslash>>
      [] c = Newline -> <<Backslash, "n">>
      [] c = "U00E9" -> <<Backslash, "u", "0", "0", "e", "9">>
      [] OTHER -> <<c>>

json_string(s) ==
    <<Quote>> \o Concat([i \in 1..Len(s) |-> json_escape(s[i])]) \o <<Quote>>

\* json.dumps({"task_id": ..., "completion": ...})
json_dumps(rec) ==
    <<"{">> \o json_string(KeyTaskId) \o <<":", " ">> \o json_string(rec.task_id)
        \o <<",", " ">> \o json_string(KeyCompletion) \o <<":", " ">>
        \o json_string(rec.completion) \o <<"}">>

-----------------------------------------------------------------------------
(* write_output_func                                                       *)

\* open(path, "w"): the file exists and is empty, whatever it held
OpenW(before) == File(<<>>)

\* a slip: nothing opened when there is nothing to write
write_output_func_skip_empty(result_list_, before) ==
    IF result_list_ = <<>> THEN before
    ELSE File(Concat([i \in 1..Len(result_list_) |->
                          json_dumps(result_list_[i]) \o <<Newline>>]))

\* a slip: the file opened with "a"
write_output_func_append(result_list_, before) ==
    LET file == File(before.data)
    IN  File(file.data \o Concat([i \in 1..Len(result_list_) |->
                            json_dumps(result_list_[i]) \o <<Newline>>]))

\* a slip: the line written without its "\n"
write_output_func_unterminated(result_list_, before) ==
    LET file == OpenW(before)
    IN  File(file.data \o Concat([i \in 1..Len(result_list_) |->
                            json_dumps(result_list_[i])]))

write_output_func(result_list_, before) ==
    LET file == OpenW(before)
    IN  File(file.data \o Concat([i \in 1..Len(result_list_) |->
                            json_dumps(result_list_[i]) \o <<Newline>>]))

\* the task identifiers of the datasets
TaskIds == { <<"A", "/", "1">>, <<"A", "/", "2">>, <<"B", "/", "1">> }

\* completions: empty, plain, and with each character json.dumps escapes
Completions ==
    { <<>>, <<"x">>, <<"x", Newline, "y">>, <<Quote, Backslash>>, <<"U00E9">> }

ResultRecords == [task_id : TaskIds, completion : Completions]

\* what the output path may hold before a call: nothing, an empty file, lines
\* of an earlier run, text with no final newline
PriorFiles == { Absent, File(<<>>), File(<<"o", "l", "d", Newline>>), File(<<"o">>) }

InitWriter ==
    /\ wlist \in SeqsUpTo(ResultRecords, MaxList)
    /\ wfile \in PriorFiles
    /\ wprior = wfile
    /\ wfirst = Absent
    /\ wcalls = 0
    /\ ParseIdle /\ ApiIdle /\ RunIdle

WriteOutput ==
    /\ wcalls < MaxWrites
    /\ wfile' = write_output_func(wlist, wfile)
    /\ wfirst' = IF wcalls = 0 THEN wfile' ELSE wfirst
    /\ wcalls' = wcalls + 1
    /\ UNCHANGED <<wlist, wprior, parseVars, apiVars, runVars>>

NextWriter == WriteOutput

SpecWriter == InitWriter /\ [][NextWriter]_vars

(* Reading the file back: its lines, and json.loads of one line.           *)

RECURSIVE Lines(_)
\* the lines of a file, each without its "\n"; text after the last "\n" is a line
Lines(data) ==
    IF data = <<>> THEN <<>>
    ELSE LET n == Find(data, <<Newline>>)
         IN  IF n = -1 THEN <<data>>
             ELSE <<SubSeq(data, 1, n)>> \o Lines(SubSeq(data, n + 2, Len(data)))

Failed == [ok |-> FALSE, val |-> <<>>, next |-> 0]

RECURSIVE ScanString(_, _, _)
\* the string literal of s whose first character (after the opening quote) is
\* s[i]: its value, and the position after its closing quote
ScanString(s, i, acc) ==
    IF i > Len(s) \/ s[i] = Newline THEN Failed
    ELSE IF s[i] = Quote THEN [ok |-> TRUE, val |-> acc, next |-> i + 1]
    ELSE IF s[i] # Backslash THEN ScanString(s, i + 1, Append(acc, s[i]))
    ELSE IF i + 1 > Len(s) THEN Failed
    ELSE IF s[i + 1] \in {Quote, Backslash} THEN ScanString(s, i + 2, Append(acc, s[i + 1]))
    ELSE IF s[i + 1] = "n" THEN ScanString(s, i + 2, Append(acc, Newline))
    ELSE IF s[i + 1] = "u" /\ SubSeq(s, i + 2, i + 5) = <<"0", "0", "e", "9">>
         THEN ScanString(s, i + 6, Append(acc, "U00E9"))
    ELSE Failed

\* s holds lit at 1-based position i
Holds(s, i, lit) == i >= 1 /\ OccursAt(s, lit, i - 1)

\* json.loads of a line holding an object of two string members
json_loads(line) ==
    LET k1 == IF Holds(line, 1, <<"{", Quote>>) THEN ScanString(line, 3, <<>>) ELSE Failed
        v1 == IF k1.ok /\ Holds(line, k1.next, <<":", " ", Quote>>)
              THEN ScanString(line, k1.next + 3, <<>>) ELSE Failed
        k2 == IF v1.ok /\ Holds(line, v1.next, <<",", " ", Quote>>)
              THEN ScanString(line, v1.next + 3, <<>>) ELSE Failed
        v2 == IF k2.ok /\ Holds(line, k2.next, <<":", " ", Quote>>)
              THEN ScanString(line, k2.next + 3, <<>>) ELSE Failed
    IN  IF v2.ok /\ v2.next = Len(line) /\ line[Len(line)] = "}"
        THEN <<[key |-> k1.val, value |-> v1.val], [key |-> k2.val, value |-> v2.val]>>
        ELSE <<>>

\* C6: a second call of write_output_func with the same list and path leaves
\* the file with the bytes it had after the first call, whatever the path held
\* before the first.
C6_WriterIdempotent ==
    wcalls >= 2 => wfile = wfirst

\* two calls made, over a path that held text, with a list of two records
C6_Witness ==
    wcalls = 2 /\ wprior.data # <<>> /\ Len(wlist) = 2 /\ wfile.data # <<>>

\* C7: after write_output_func returns, the file exists and holds exactly
\* len(result_list) lines, each ended by "\n"; line i is json.dumps of record
\* i and reads back (json.loads) as that record's task_id and completion;
\* nothing else is in the file.
C7_WriterLines ==
    wcalls >= 1 =>
        /\ wfile.exists
        /\ LET ls == Lines(wfile.data)
           IN  /\ Len(ls) = Len(wlist)
               /\ wfile.data = Concat([i \in 1..Len(ls) |-> ls[i] \o <<Newline>>])
               /\ \A i \in 1..Len(ls) :
                    /\ ls[i] = json_dumps(wlist[i])
                    /\ json_loads(ls[i]) =
                         <<[key |-> KeyTaskId, value |-> wlist[i].task_id],
                           [key |-> KeyCompletion, value |-> wlist[i].completion]>>

\* a list of two records, one with a newline in its completion, written over
\* a path that held text
C7_Witness ==
    /\ wcalls = 1 /\ wprior.data # <<>> /\ Len(wlist) = 2
    /\ \E i \in 1..2 : Find(wlist[i].completion, <<Newline>>) # -1

-----------------------------------------------------------------------------
(* LLMQuery and LLMResponse: pydantic models.  A keyword argument is       *)
(* omitted, None, or a value of some Python type.                          *)

\* Literal["chat", "tool_use", "operate_file"]
ActionTypes == {"chat", "tool_use", "operate_file"}

\* Optional[List[...]]: None or a list
IsOptionalList(a) == a.kind \in {"None", "list"}
\* Optional[str]
IsOptionalStr(a) == a.kind \in {"None", "str"}

Constructed(obj) == [raised |-> "", obj |-> <<obj>>]
ValidationError == [raised |-> "ValidationError", obj |-> <<>>]

\* a slip: action_type declared str
LLMQuery_any_action(args) ==
    IF /\ args.messages.kind = "list"
       /\ args.llms.kind = "omitted" \/ IsOptionalList(args.llms)
       /\ args.tools.kind = "omitted" \/ IsOptionalList(args.tools)
       /\ args.action_type.kind \in {"omitted", "str"}
    THEN Constructed(
           [ query_class |-> "llm",
             llms |-> IF args.llms.kind = "omitted" THEN None ELSE args.llms,
             messages |-> args.messages.list,
             tools |-> IF args.tools.kind = "omitted" THEN PyList(<<>>) ELSE args.tools,
             action_type |-> IF args.action_type.kind = "omitted" THEN "chat"
                             ELSE args.action_type.str,
             message_return_type |-> "text" ])
    ELSE ValidationError

\* LLMQuery(llms=..., messages=..., tools=..., action_type=...)
LLMQuery(args) ==
    IF /\ args.messages.kind = "list"
       /\ args.llms.kind = "omitted" \/ IsOptionalList(args.llms)
       /\ args.tools.kind = "omitted" \/ IsOptionalList(args.tools)
       /\ \/ args.action_type.kind = "omitted"
          \/ args.action_type.kind = "str" /\ args.action_type.str \in ActionTypes
    THEN Constructed(
           [ query_class |-> "llm",
             llms |-> IF args.llms.kind = "omitted" THEN None ELSE args.llms,
             messages |-> args.messages.list,
             tools |-> IF args.tools.kind = "omitted" THEN PyList(<<>>) ELSE args.tools,
             action_type |-> IF args.action_type.kind = "omitted" THEN "chat"
                             ELSE args.action_type.str,
             message_return_type |-> "text" ])
    ELSE ValidationError

\* LLMResponse(response_message=..., tool_calls=..., finished=..., error=...,
\* status_code=...)
LLMResponse(args) ==
    IF /\ args.response_message.kind = "omitted" \/ IsOptionalStr(args.response_message)
       /\ args.tool_calls.kind = "omitted" \/ IsOptionalList(args.tool_calls)
       /\ args.finished.kind \in {"omitted", "bool"}
       /\ args.error.kind = "omitted" \/ IsOptionalStr(args.error)
       /\ args.status_code.kind \in {"omitted", "int"}
    THEN Constructed(
           [ response_class |-> "llm",
             response_message |-> IF args.response_message.kind = "omitted" THEN None
                                  ELSE args.response_message,
             tool_calls |-> IF args.tool_calls.kind = "omitted" THEN None
                            ELSE args.tool_calls,
             finished |-> IF args.finished.kind = "omitted" THEN FALSE
                          ELSE args.finished.bool,
             error |-> IF args.error.kind = "omitted" THEN None ELSE args.error,
             status_code |-> IF args.status_code.kind = "omitted" THEN 200
                             ELSE args.status_code.int ])
    ELSE ValidationError

\* message dicts, tool and llm descriptors
Messages == { [role |-> "system", content |-> "s"], [role |-> "user", content |-> "u"] }
MessageLists == SeqsUpTo(Messages, MaxMessages)
Tool == [name |-> "calculator"]
Llm == [name |-> "gpt-4"]

MessagesArgs == {Omitted, None} \cup {PyList(m) : m \in MessageLists}
ToolsArgs == {Omitted, None, PyList(<<>>), PyList(<<Tool>>)}
LlmsArgs == {Omitted, None, PyList(<<Llm>>)}
ActionTypeArgs ==
    {Omitted, None} \cup {PyStr(a) : a \in ActionTypes \cup {"delete", "CHAT", ""}}

QueryArgs ==
    [llms : LlmsArgs, messages : MessagesArgs, tools : ToolsArgs,
     action_type : ActionTypeArgs]

ResponseArgs ==
    [ response_message : {Omitted, None, PyStr("m")},
      tool_calls : {Omitted, None, PyList(<<[name |-> "calculator"]>>)},
      finished : {Omitted, PyBool(TRUE), PyBool(FALSE)},
      error : {Omitted, None, PyStr(""), PyStr("boom")},
      status_code : {Omitted, PyInt(200), PyInt(500), PyStr("abc")} ]

InitApi ==
    /\ apc = "start"
    /\ qargs = <<>> /\ query = <<>> /\ qraised = ""
    /\ rargs = <<>> /\ response = <<>> /\ rraised = ""
    /\ outbound = 0 /\ sent = <<>>
    /\ largs = <<>> /\ layer = <<>> /\ lraised = ""
    /\ ParseIdle /\ WriterIdle /\ RunIdle

\* query = LLMQuery(...)
ConstructQuery ==
    /\ apc = "start"
    /\ \E args \in QueryArgs :
        /\ qargs' = <<args>>
        /\ query' = LLMQuery(args).obj
        /\ qraised' = LLMQuery(args).raised
    /\ apc' = "returned"
    /\ UNCHANGED <<rargs, response, rraised, outbound, sent, largs, layer, lraised,
                   parseVars, writerVars, runVars>>

\* response = LLMResponse(...)
ConstructResponse ==
    /\ apc = "start"
    /\ \E args \in ResponseArgs :
        /\ rargs' = <<args>>
        /\ response' = LLMResponse(args).obj
        /\ rraised' = LLMResponse(args).raised
    /\ apc' = "returned"
    /\ UNCHANGED <<qargs, query, qraised, outbound, sent, largs, layer, lraised,
                   parseVars, writerVars, runVars>>

\* what the one outbound call may meet
NetOutcomes ==
    { [kind |-> "reply", status |-> 200], [kind |-> "reply", status |-> 503],
      [kind |-> "reply", status |-> 404],
      [kind |-> "connection failure", status |-> 0],
      [kind |-> "timeout", status |-> 0] }

\* send_request(agent_name, query, base_url): one outbound call, its outcome
\* mapped into a Response
send_request(agent_name, q, base_url, net) ==
    IF net.kind = "reply" /\ net.status \in 200..299
    THEN [ response_class |-> "llm", response_message |-> PyStr("m"),
           tool_calls |-> None, finished |-> TRUE, error |-> None,
           status_code |-> net.status ]
    ELSE [ response_class |-> "llm", response_message |-> None,
           tool_calls |-> None, finished |-> FALSE, error |-> PyStr(net.kind),
           status_code |-> IF net.kind = "reply" THEN net.status ELSE 0 ]

BaseUrl == "http://localhost:8000"

\* a slip: the request sent again when the response is not finished
LlmCall_retry(args, net) ==
    /\ apc = "start"
    /\ qargs' = <<args>>
    /\ query' = LLMQuery(args).obj
    /\ qraised' = LLMQuery(args).raised
    /\ IF LLMQuery(args).raised = ""
       THEN LET first == send_request("agent1", LLMQuery(args).obj[1], BaseUrl, net)
            IN  IF first.finished
                THEN /\ response' = <<first>>
                     /\ outbound' = outbound + 1
                     /\ sent' = Append(sent, net)
                ELSE /\ response' =
                          <<send_request("agent1", LLMQuery(args).obj[1], BaseUrl, net)>>
                     /\ outbound' = outbound + 2
                     /\ sent' = sent \o <<net, net>>
       ELSE /\ response' = <<>>
            /\ outbound' = outbound
            /\ sent' = sent
    /\ rargs' = <<>>
    /\ rraised' = ""
    /\ apc' = "returned"
    /\ UNCHANGED <<largs, layer, lraised, parseVars, writerVars, runVars>>

\* the body the three llm_* functions share: build the query, send it
LlmCall(args, net) ==
    /\ apc = "start"
    /\ qargs' = <<args>>
    /\ query' = LLMQuery(args).obj
    /\ qraised' = LLMQuery(args).raised
    /\ IF LLMQuery(args).raised = ""
       THEN /\ response' = <<send_request("agent1", LLMQuery(args).obj[1], BaseUrl, net)>>
            /\ outbound' = outbound + 1
            /\ sent' = Append(sent, net)
       ELSE /\ response' = <<>>
            /\ outbound' = outbound
            /\ sent' = sent
    /\ rargs' = <<>>
    /\ rraised' = ""
    /\ apc' = "returned"
    /\ UNCHANGED <<largs, layer, lraised, parseVars, writerVars, runVars>>

llm_chat ==
    \E messages \in MessagesArgs \ {Omitted}, llms \in LlmsArgs \ {Omitted},
       net \in NetOutcomes :
        LlmCall([llms |-> llms, messages |-> messages, tools |-> None,
                 action_type |-> PyStr("chat")], net)

llm_call_tool ==
    \E messages \in MessagesArgs \ {Omitted}, tools \in ToolsArgs \ {Omitted},
       llms \in LlmsArgs \ {Omitted}, net \in NetOutcomes :
        LlmCall([llms |-> llms, messages |-> messages, tools |-> tools,
                 action_type |-> PyStr("tool_use")], net)

llm_operate_file ==
    \E messages \in MessagesArgs \ {Omitted}, tools \in ToolsArgs \ {Omitted},
       llms \in LlmsArgs \ {Omitted}, net \in NetOutcomes :
        LlmCall([llms |-> llms, messages |-> messages, tools |-> tools,
                 action_type |-> PyStr("operate_file")], net)

-----------------------------------------------------------------------------
(* LLMLayer: a dataclass whose __post_init__ refuses an empty llms.        *)

\* LLMItem(llm_name), the other fields at their defaults
LLMItem(llm_name) ==
    [ llm_name |-> llm_name, max_gpu_memory |-> None, eval_device |-> "cuda:0",
      max_new_tokens |-> 2048, log_mode |-> "console", llm_backend |-> "default" ]

\* not x: Python's truth test of an argument
Falsy(a) ==
    \/ a.kind = "None"
    \/ a.kind = "list" /\ a.list = <<>>
    \/ a.kind = "str" /\ a.str = ""
    \/ a.kind = "int" /\ a.int = 0
    \/ a.kind = "bool" /\ ~a.bool

\* a slip: no __post_init__
LLMLayer_unchecked(llms) ==
    IF llms.kind = "omitted" THEN [raised |-> "TypeError", obj |-> <<>>]
    ELSE Constructed([llms |-> llms])

\* LLMLayer(llms): the generated __init__ stores the argument as given (a
\* dataclass checks no types), then __post_init__ runs
LLMLayer(llms) ==
    IF llms.kind = "omitted" THEN [raised |-> "TypeError", obj |-> <<>>]
    ELSE IF Falsy(llms) THEN [raised |-> "ValueError", obj |-> <<>>]
    ELSE Constructed([llms |-> llms])

LlmItems == { LLMItem("gpt-4"), LLMItem("llama") }

\* what may be passed as llms: nothing, None, a list, and values that are no list
LayerArgs ==
    {Omitted, None, PyStr(""), PyStr("gpt-4"), PyInt(0)}
        \cup {PyList(l) : l \in SeqsUpTo(LlmItems, MaxLlms)}

\* layer = LLMLayer(...)
ConstructLayer ==
    /\ apc = "start"
    /\ \E llms \in LayerArgs :
        /\ largs' = <<llms>>
        /\ layer' = LLMLayer(llms).obj
        /\ lraised' = LLMLayer(llms).raised
    /\ apc' = "returned"
    /\ UNCHANGED <<qargs, query, qraised, rargs, response, rraised, outbound, sent,
                   parseVars, writerVars, runVars>>

NextApi ==
    \/ ConstructLayer
    \/ ConstructQuery
    \/ ConstructResponse
    \/ llm_chat
    \/ llm_call_tool
    \/ llm_operate_file

SpecApi == InitApi /\ [][NextApi]_vars

\* C8: a constructed LLMQuery has action_type in {chat, tool_use,
\* operate_file}, "chat" when the argument is omitted; a construction with any
\* other action_type string raises ValidationError and yields no object.
C8_ActionTypeEnumerated ==
    /\ Len(query) = 1 => query[1].action_type \in ActionTypes
    /\ Len(qargs) = 1 =>
        /\ (qargs[1].action_type.kind = "omitted" /\ Len(query) = 1)
              => query[1].action_type = "chat"
        /\ (qargs[1].action_type.kind = "str" /\ qargs[1].action_type.str \notin ActionTypes)
              => qraised = "ValidationError" /\ Len(query) = 0

\* a construction with valid messages and action_type="delete" was refused
C8_Witness ==
    /\ Len(qargs) = 1
    /\ qargs[1].messages.kind = "list" /\ Len(qargs[1].messages.list) > 0
    /\ qargs[1].action_type.kind = "str" /\ qargs[1].action_type.str = "delete"
    /\ qraised = "ValidationError" /\ Len(query) = 0

\* C9: a constructed LLMQuery has a non-empty messages list; a construction
\* with an empty list, or without messages, raises ValidationError and yields
\* no object, also through llm_chat, llm_call_tool and llm_operate_file.
C9_MessagesNonEmpty ==
    /\ Len(query) = 1 => Len(query[1].messages) > 0
    /\ (/\ Len(qargs) = 1
        /\ \/ qargs[1].messages.kind = "omitted"
           \/ qargs[1].messages.kind = "list" /\ qargs[1].messages.list = <<>>)
          => qraised = "ValidationError" /\ Len(query) = 0

\* C10: a constructed LLMResponse with finished false has a non-empty error
\* string.
C10_UnfinishedHasError ==
    (Len(response) = 1 /\ ~response[1].finished)
        => response[1].error.kind = "str" /\ response[1].error.str # ""

-----------------------------------------------------------------------------
(* process_one_func                                                        *)

\* a dataset record; the prompt, the test and the entry point are the same
\* short texts for every task
Record(tid) ==
    [task_id |-> tid, prompt |-> <<"p", Newline>>, test |-> <<"t">>,
     entry_point |-> <<"f">>]

\* what agent.run_humaneval(prompt) may do: answer between the markers,
\* answer with no markers, or raise
AgentOutcomes ==
    { [raises |-> FALSE, text |-> StartMarker \o <<"r">> \o EndMarker],
      [raises |-> FALSE, text |-> <<"x">>],
      [raises |-> TRUE, text |-> <<>>] }

\* s.split("/")[-1]
LastSegment(s) ==
    LET n == RFind(s, <<"/">>)
    IN  IF n = -1 THEN s ELSE SubSeq(s, n + 2, Len(s))

\* os.path.join(path, f"program{task_id}.py"), inside the programs directory
ProgramPath(task_id) ==
    <<"p", "r", "o", "g", "r", "a", "m">> \o task_id \o <<".", "p", "y">>

Raised ==
    [raised |-> TRUE, prediction |-> [task_id |-> <<>>, completion |-> <<>>],
     path |-> <<>>, check_program |-> <<>>]

\* a slip: the prediction keyed by the local task_id, the identifier's suffix
process_one_func_local_id(data, agent_out) ==
    IF agent_out.raises THEN Raised
    ELSE LET result == parse_result(agent_out.text)
             task_id == LastSegment(data.task_id)
         IN  [ raised |-> FALSE,
               prediction |-> [task_id |-> task_id, completion |-> result],
               path |-> ProgramPath(task_id),
               check_program |->
                   data.prompt \o result \o <<Newline>> \o data.test \o <<Newline>>
                       \o <<"c", "h", "e", "c", "k", "(">> \o data.entry_point \o <<")">> ]

\* a slip: the agent's exception caught and an empty completion recorded
process_one_func_swallow(data, agent_out) ==
    LET result == IF agent_out.raises THEN <<>> ELSE parse_result(agent_out.text)
        task_id == LastSegment(data.task_id)
    IN  [ raised |-> FALSE,
          prediction |-> [task_id |-> data.task_id, completion |-> result],
          path |-> ProgramPath(task_id),
          check_program |->
              data.prompt \o result \o <<Newline>> \o data.test \o <<Newline>>
                  \o <<"c", "h", "e", "c", "k", "(">> \o data.entry_point \o <<")">> ]

\* process_one_func(data, meta_data), given what the agent does: whether it
\* raises, the prediction it returns, and the side file it writes
process_one_func(data, agent_out) ==
    IF agent_out.raises THEN Raised
    ELSE LET result == parse_result(agent_out.text)
             task_id == LastSegment(data.task_id)
         IN  [ raised |-> FALSE,
               prediction |-> [task_id |-> data.task_id, completion |-> result],
               path |-> ProgramPath(task_id),
               check_program |->
                   data.prompt \o result \o <<Newline>> \o data.test \o <<Newline>>
                       \o <<"c", "h", "e", "c", "k", "(">> \o data.entry_point \o <<")">> ]

\* open(path, "w") and f.write(content) in a directory, a set of files
WriteFile(dir, path, content) ==
    {f \in dir : f.path # path} \cup {[path |-> path, content |-> content]}

-----------------------------------------------------------------------------
(* run_inference: the harness loop over the dataset.                       *)

\* datasets of distinct tasks
Datasets ==
    { d \in SeqsUpTo(TaskIds, MaxData) :
        \A i, j \in 1..Len(d) : i # j => d[i] # d[j] }

\* max_num: None (unbounded) or a count
MaxNums == {None} \cup {PyInt(k) : k \in 0..MaxNum}

\* how many records the run processes
Limit ==
    IF max_num.kind = "None" THEN Len(dataset) ELSE Min(max_num.int, Len(dataset))

InitRun ==
    /\ dataset \in {[i \in 1..Len(d) |-> Record(d[i])] : d \in Datasets}
    /\ max_num \in MaxNums
    /\ pc = "Pending"
    /\ idx = 0
    /\ outcome = <<>>
    /\ result_list = <<>>
    /\ invoked = <<>>
    /\ writes = <<>>
    /\ prior_file \in {Absent, File(<<"o", "l", "d", Newline>>)}
    /\ output_file = prior_file
    /\ programs = {}
    /\ written = <<>>
    /\ ParseIdle /\ WriterIdle /\ ApiIdle

\* Pending -> Running: the next record is handed to process_one_func
StartRecord ==
    /\ pc = "Pending"
    /\ idx < Limit
    /\ invoked' = Append(invoked, idx + 1)
    /\ pc' = "Running"
    /\ UNCHANGED <<dataset, max_num, idx, outcome, result_list, writes, prior_file,
                   output_file, programs, written, parseVars, writerVars, apiVars>>

\* Running -> Pending: process_one_func returns and its result is appended;
\* Running -> Aborted: it raises, and the exception leaves run_inference
FinishRecord ==
    /\ pc = "Running"
    /\ \E o \in AgentOutcomes :
        LET r == process_one_func(dataset[idx + 1], o)
        IN  /\ outcome' = <<o>>
            /\ IF r.raised
               THEN /\ pc' = "Aborted"
                    /\ UNCHANGED <<idx, result_list, programs, written>>
               ELSE /\ programs' = WriteFile(programs, r.path, r.check_program)
                    /\ written' = Append(written,
                                         [task_id |-> dataset[idx + 1].task_id,
                                          path |-> r.path, content |-> r.check_program])
                    /\ result_list' = Append(result_list, r.prediction)
                    /\ idx' = idx + 1
                    /\ pc' = "Pending"
    /\ UNCHANGED <<dataset, max_num, invoked, writes, prior_file, output_file,
                   parseVars, writerVars, apiVars>>

\* Pending -> Done: the count is exhausted and the Result Writer is called
Complete ==
    /\ pc = "Pending"
    /\ idx = Limit
    /\ output_file' = write_output_func(result_list, output_file)
    /\ writes' = Append(writes, result_list)
    /\ pc' = "Done"
    /\ UNCHANGED <<dataset, max_num, idx, outcome, result_list, invoked, prior_file,
                   programs, written, parseVars, writerVars, apiVars>>

Next == StartRecord \/ FinishRecord \/ Complete

Spec == InitRun /\ [][Next]_vars

\* C1: records are handed to process_one_func one at a time in dataset order;
\* each returned prediction is in the result list before the next record is
\* handed over, so the list follows the dataset, record for record; the
\* Result Writer is called once, after the last record, with the whole list,
\* and not before.
C1_InOrderThenWriteOnce ==
    /\ invoked = [i \in 1..Len(invoked) |-> i]
    /\ Len(invoked) <= Len(dataset)
    /\ Len(result_list) = idx
    /\ Len(invoked) = IF pc \in {"Running", "Aborted"} THEN idx + 1 ELSE idx
    /\ \A i \in 1..Len(result_list) : result_list[i].task_id = dataset[i].task_id
    /\ pc = "Done" => writes = <<result_list>> /\ Len(result_list) = Limit
    /\ pc # "Done" => writes = <<>>

\* a run over two records that reached Done
C1_Witness ==
    pc = "Done" /\ Len(result_list) = 2 /\ Len(writes) = 1

\* C2: a run that reaches Done has made min(max_num, n) invocations, n the
\* dataset's length; with max_num = 0 it has made none and has called the
\* Result Writer with the empty list, leaving an existing file of zero lines;
\* with n < max_num it has made n; and a run whose invocations do not raise is
\* never aborted and can always go on until Done.
C2_StopsAtMin ==
    /\ (pc = "Done" /\ max_num.kind = "int") =>
          Len(invoked) = (IF max_num.int < Len(dataset) THEN max_num.int ELSE Len(dataset))
    /\ (pc = "Done" /\ max_num.kind = "int" /\ max_num.int = 0) =>
          /\ invoked = <<>>
          /\ writes = << <<>> >>
          /\ output_file.exists /\ Lines(output_file.data) = <<>>
    /\ (pc = "Done" /\ max_num.kind = "int" /\ Len(dataset) < max_num.int) =>
          Len(invoked) = Len(dataset)
    /\ pc = "Aborted" => Len(outcome) = 1 /\ outcome[1].raises
    /\ pc \in {"Pending", "Running"} => ENABLED Next

\* a run with max_num = 0 over a non-empty dataset and an output path that held
\* text reached Done
C2_Witness ==
    /\ pc = "Done" /\ max_num.kind = "int" /\ max_num.int = 0
    /\ Len(dataset) > 0 /\ prior_file.exists

\* C3: once process_one_func has raised for a record, the run is halted at
\* that record: it is aborted and can take no further step, no later record
\* has been handed over, the Result Writer has not been called, and the output
\* file is as it was before the run.
C3_RaiseHaltsRun ==
    (Len(outcome) = 1 /\ outcome[1].raises) =>
        /\ pc = "Aborted"
        /\ ~ENABLED Next
        /\ Len(invoked) = idx + 1
        /\ Len(result_list) = idx
        /\ writes = <<>>
        /\ output_file = prior_file

\* the second record's invocation raised, over an output path that held text
C3_Witness ==
    /\ pc = "Aborted" /\ idx = 1 /\ Len(outcome) = 1 /\ outcome[1].raises
    /\ prior_file.exists /\ Len(dataset) = 2

\* C5: records with distinct task identifiers write distinct side-file paths,
\* so every side file written in the run still holds what its record wrote.
C5_SideFilesDistinct ==
    /\ \A i, j \in 1..Len(written) :
          written[i].task_id # written[j].task_id => written[i].path # written[j].path
    /\ \A i \in 1..Len(written) :
          [path |-> written[i].path, content |-> written[i].content] \in programs

\* C11: when the outbound call of a send_request (made by llm_chat,
\* llm_call_tool or llm_operate_file) ends in a connection failure, a timeout
\* or a status outside 2xx, the caller holds a Response and no exception: its
\* finished is false, its error a non-empty string, its status_code the status
\* observed or the transport sentinel 0; and that call was the only one made.
C11_FailureIsAResponse ==
    (Len(sent) >= 1 /\ ~(sent[1].kind = "reply" /\ sent[1].status \in 200..299)) =>
        /\ Len(sent) = 1 /\ outbound = 1
        /\ qraised = "" /\ rraised = ""
        /\ Len(response) = 1
        /\ ~response[1].finished
        /\ response[1].error.kind = "str" /\ response[1].error.str # ""
        /\ response[1].status_code =
              (IF sent[1].kind = "reply" THEN sent[1].status ELSE 0)

\* an llm_call_tool request met a 503
C11_Witness ==
    /\ Len(sent) = 1 /\ sent[1].kind = "reply" /\ sent[1].status = 503
    /\ Len(query) = 1 /\ query[1].action_type = "tool_use"
    /\ Len(response) = 1 /\ response[1].status_code = 503

\* C12: an LLMLayer object that exists holds a non-empty llms; constructing
\* one with an empty list, or any other falsy llms, raises ValueError and
\* yields no object; constructing one with a non-empty list succeeds and the
\* object holds that list as given.
C12_LayerHoldsAnLLM ==
    /\ Len(layer) = 1 => ~Falsy(layer[1].llms)
    /\ (Len(largs) = 1 /\ Falsy(largs[1])) =>
          lraised = "ValueError" /\ Len(layer) = 0
    /\ (Len(largs) = 1 /\ largs[1].kind = "list" /\ largs[1].list # <<>>) =>
          lraised = "" /\ Len(layer) = 1 /\ layer[1].llms = largs[1]

\* LLMLayer(llms=[]) was refused
C12_Witness ==
    /\ Len(largs) = 1 /\ largs[1].kind = "list" /\ largs[1].list = <<>>
    /\ lraised = "ValueError" /\ Len(layer) = 0

====
